---- MODULE Spec2Model ----
(***************************************************************************)
(* A model of testutil/server.go: the helper that launches a consul agent  *)
(* for a test (NewTestServerConfig), waits until it has a leader           *)
(* (waitForLeader) and tears it down (TestServer.Stop).                    *)
(*                                                                         *)
(* Each element of Tests is a test function running in its own goroutine.  *)
(* offset is the package-level counter; dirs, files and alive are the      *)
(* parts of the operating system the helper touches (temporary             *)
(* directories, temporary files with their content, running agents).       *)
(***************************************************************************)
EXTENDS Integers, Sequences, FiniteSets, TLC

\* ------------------------------------------------------------------ bounds

\* Number of calls of the check WaitForResult makes before it gives up.
MaxAttempts == 2

\* Largest index the port computation is examined for (PortSpec).
MaxIndex == 210

\* The test functions of the binary.  They run concurrently, each in its own
\* goroutine, and each launches one server.
Tests == {1, 2}

\* --------------------------------------------------------- program constants

DNSBase == 19000
HTTPBase == 18800
RPCBase == 18600
SerfLanBase == 18200
SerfWanBase == 18400
ServerBase == 18000

\* A nil pointer is the empty sequence, a non-nil pointer <<value>>.
Nil == <<>>
Ptr(v) == <<v>>
Deref(p) == p[1]

\* ------------------------------------------------------------ pure functions

\* Variant of AddUint64 that loses every increment but the first.
AddUint64Lost(v, delta) == IF v = 0 THEN v + delta ELSE v

\* atomic.AddUint64(&offset, delta): the new value, which is also returned.
\* The wrap-around at 2^64 is beyond every count of launches a process makes.
AddUint64(v, delta) == v + delta

\* Variant of DefaultPorts with the two serf bases exchanged.
DefaultPortsSwapped(idx) ==
    [DNS |-> DNSBase + idx, HTTP |-> HTTPBase + idx, RPC |-> RPCBase + idx,
     SerfLan |-> SerfWanBase + idx, SerfWan |-> SerfLanBase + idx,
     Server |-> ServerBase + idx]

\* Variant of DefaultPorts whose server base lies 100 below the serf_lan base.
DefaultPortsNarrow(idx) ==
    [DNS |-> DNSBase + idx, HTTP |-> HTTPBase + idx, RPC |-> RPCBase + idx,
     SerfLan |-> SerfLanBase + idx, SerfWan |-> SerfWanBase + idx,
     Server |-> (SerfLanBase - 100) + idx]

\* The Ports literal of defaultServerConfig for index idx.
DefaultPorts(idx) ==
    [DNS |-> DNSBase + idx, HTTP |-> HTTPBase + idx, RPC |-> RPCBase + idx,
     SerfLan |-> SerfLanBase + idx, SerfWan |-> SerfWanBase + idx,
     Server |-> ServerBase + idx]

\* The TestServerConfig literal of defaultServerConfig for index idx.
DefaultConfig(idx) ==
    [Bootstrap |-> TRUE, Server |-> TRUE, DataDir |-> "", LogLevel |-> "debug",
     Addresses |-> Nil, Ports |-> Ptr(DefaultPorts(idx))]

PortRoles == {"DNS", "HTTP", "RPC", "SerfLan", "SerfWan", "Server"}

\* The set of the six port numbers of a TestPortConfig.
PortSet(ports) == {ports[r] : r \in PortRoles}

\* The caller's callbacks examined: none (NewTestServer), and callbacks that
\* set one field each, to an empty or to a non-empty value.
Callbacks == {"nil", "DataDirEmpty", "DataDirCustom", "HTTPZero"}

\* cb(consulConfig): the configuration after the callback has mutated it.
ApplyCallback(c, cbk) ==
    CASE cbk = "DataDirEmpty" -> [c EXCEPT !.DataDir = ""]
      [] cbk = "DataDirCustom" -> [c EXCEPT !.DataDir = "/custom"]
      [] cbk = "HTTPZero" ->
            [c EXCEPT !.Ports = Ptr([Deref(c.Ports) EXCEPT !.HTTP = 0])]
      [] OTHER -> c

\* json.Marshal of a TestPortConfig: a field tagged omitempty is left out of
\* the document when it is zero.
PortKeys == {"dns", "http", "rpc", "serf_lan", "serf_wan", "server"}

PortField(ports, k) ==
    CASE k = "dns" -> ports.DNS
      [] k = "http" -> ports.HTTP
      [] k = "rpc" -> ports.RPC
      [] k = "serf_lan" -> ports.SerfLan
      [] k = "serf_wan" -> ports.SerfWan
      [] OTHER -> ports.Server

MarshalPorts(ports) ==
    [k \in {x \in PortKeys : PortField(ports, x) # 0} |-> PortField(ports, k)]

\* json.Marshal of a TestAddressConfig.
MarshalAddresses(a) ==
    [k \in {x \in {"http"} : a.HTTP # ""} |-> a.HTTP]

\* json.Marshal of a TestServerConfig: the document, as a function from the
\* keys present to their values.  Every field is tagged omitempty: false, "",
\* 0 and a nil pointer are left out.
Marshal(c) ==
    [k \in {x \in {"bootstrap"} : c.Bootstrap}
            \cup {x \in {"server"} : c.Server}
            \cup {x \in {"data_dir"} : c.DataDir # ""}
            \cup {x \in {"log_level"} : c.LogLevel # ""}
            \cup {x \in {"addresses"} : c.Addresses # Nil}
            \cup {x \in {"ports"} : c.Ports # Nil} |->
        CASE k = "bootstrap" -> c.Bootstrap
          [] k = "server" -> c.Server
          [] k = "data_dir" -> c.DataDir
          [] k = "log_level" -> c.LogLevel
          [] k = "addresses" -> MarshalAddresses(Deref(c.Addresses))
          [] OTHER -> MarshalPorts(Deref(c.Ports))]

\* The responses of http.Get examined.  A header that is absent is Nil, one
\* that is present is Ptr(value).
Responses ==
    {[transportErr |-> TRUE, leader |-> Nil, index |-> Nil],
     [transportErr |-> FALSE, leader |-> Nil, index |-> Ptr("5")],
     [transportErr |-> FALSE, leader |-> Ptr("false"), index |-> Ptr("5")],
     [transportErr |-> FALSE, leader |-> Ptr("true"), index |-> Ptr("0")],
     [transportErr |-> FALSE, leader |-> Ptr("true"), index |-> Nil],
     [transportErr |-> FALSE, leader |-> Ptr("true"), index |-> Ptr("5")]}

\* http.Header.Get: the value of a header, "" when the header is absent.
HeaderGet(h) == IF h = Nil THEN "" ELSE Deref(h)

\* The check waitForLeader hands to WaitForResult: (success, error).
ReadinessCheck(resp) ==
    IF resp.transportErr
    THEN [ok |-> FALSE, err |-> "transport error"]
    ELSE IF HeaderGet(resp.leader) # "true"
    THEN [ok |-> FALSE,
          err |-> "Consul leader status: " \o HeaderGet(resp.leader)]
    ELSE IF HeaderGet(resp.index) = "0"
    THEN [ok |-> FALSE, err |-> "Consul index is 0"]
    ELSE [ok |-> TRUE, err |-> "nil"]

\* Variant of OnGiveUp that returns instead of panicking.
OnGiveUpReturns(err) == "return"

\* The give-up handler waitForLeader hands to WaitForResult: it panics.
OnGiveUp(err) == "panic"

\* The names ioutil.TempDir and ioutil.TempFile return: fresh for every call.
TempDirName(t) == "/tmp/consul-dir-" \o ToString(t)
TempFileName(t) == "/tmp/consul-file-" \o ToString(t)

\* The process identifier the operating system gives a started agent.
FreshPid(t) == 100 + t

\* Variant of WaitForResult that gives up one attempt early.
WaitForResultEarly(calls, ok) ==
    IF ok THEN "return"
    ELSE IF calls + 1 < MaxAttempts THEN "retry" ELSE "giveup"

\* Variant of WaitForResult that never gives up.
WaitForResultForever(calls, ok) ==
    IF ok THEN "return" ELSE "retry"

\* WaitForResult(test, error) after a call of the check, the calls-th, that
\* returned ok: return on success, retry after a failure while attempts are
\* left, hand the error to the give-up handler once the bound is exhausted.
WaitForResult(calls, ok) ==
    IF ok THEN "return"
    ELSE IF calls < MaxAttempts THEN "retry" ELSE "giveup"

\* ---------------------------------------------------------------- the state

VARIABLES
    offset,        \* var offset uint64
    issued,        \* history: the indices returned, in the order of return
    dirs,          \* the temporary directories that exist
    files,         \* the temporary files that exist, with their content
    alive,         \* the process identifiers of the running agents
    crashed,       \* the test binary died of a panic
    pc,            \* where each goroutine stands
    cb,            \* NewTestServerConfig's argument cb
    dataDir,       \* its local dataDir
    configFile,    \* the name of its local configFile
    consulConfig,  \* its local consulConfig
    configContent, \* its local configContent
    cmdPid,        \* cmd.Process.Pid
    server,        \* its local server
    handle,        \* the *TestServer the caller received
    outcome,       \* how the test function's launch ended
    poll,          \* the run of WaitForResult inside waitForLeader
    killErr,       \* Stop: the error of cmd.Run
    log,           \* history: the steps of the current launch, in order
    pair           \* PortSpec: two indices and the ports computed for them

osVars == <<dirs, files, alive>>
localVars ==
    <<cb, dataDir, configFile, consulConfig, configContent, cmdPid,
      server>>
vars ==
    <<offset, issued, dirs, files, alive, crashed, pc, cb, dataDir,
      configFile, consulConfig, configContent, cmdPid, server, handle, outcome,
      poll, killErr, log, pair>>

\* WaitForResult before its first call of the check.  readyAfter is the number
\* of calls of the check that fail before the agent answers as ready.
NewPoll(k) ==
    [readyAfter |-> k, calls |-> 0, lastResp |-> Nil, lastOk |-> FALSE,
     lastErr |-> "nil", giveUps |-> 0, handlerErr |-> "nil"]

NoPair == [i |-> 0, j |-> 0, portsI |-> Nil, portsJ |-> Nil]

\* The state of a process that has launched nothing yet.
ProcessStart ==
    /\ offset = 0
    /\ issued = <<>>
    /\ dirs = {}
    /\ files = <<>>
    /\ alive = {}
    /\ crashed = FALSE
    /\ pc = [t \in Tests |-> "idle"]
    /\ cb = [t \in Tests |-> "nil"]
    /\ dataDir = [t \in Tests |-> ""]
    /\ configFile = [t \in Tests |-> ""]
    /\ consulConfig = [t \in Tests |-> Nil]
    /\ configContent = [t \in Tests |-> Nil]
    /\ cmdPid = [t \in Tests |-> 0]
    /\ server = [t \in Tests |-> Nil]
    /\ handle = [t \in Tests |-> Nil]
    /\ outcome = [t \in Tests |-> "none"]
    /\ poll = [t \in Tests |-> NewPoll(0)]
    /\ killErr = [t \in Tests |-> FALSE]
    /\ log = [t \in Tests |-> <<>>]

Init == ProcessStart /\ pair = NoPair

\* Variant of RemoveFile that leaves the file where it is.
RemoveFileKeeps(fs, name) == fs

\* os.Remove(name): the files without name.
RemoveFile(fs, name) == [f \in DOMAIN fs \ {name} |-> fs[f]]

\* The file name holds content (created, or written over).
PutFile(fs, name, content) ==
    [f \in DOMAIN fs \cup {name} |-> IF f = name THEN content ELSE fs[f]]

\* Variant of Fatalf that marks the test failed and lets it run on (t.Errorf).
FatalfGoesOn(t, deferred) ==
    /\ files' = files
    /\ outcome' = [outcome EXCEPT ![t] = "fatal"]
    /\ pc' = pc

\* t.Fatalf inside NewTestServerConfig: the test function fails and its
\* goroutine exits, running the deferred os.Remove(configFile.Name()) when it
\* has been registered (deferred says so).
Fatalf(t, deferred) ==
    /\ files' = IF deferred THEN RemoveFile(files, configFile[t]) ELSE files
    /\ outcome' = [outcome EXCEPT ![t] = "fatal"]
    /\ pc' = [pc EXCEPT ![t] = "done"]

\* ------------------------------------------------- NewTestServerConfig(t, cb)

\* Variant of LookPath that marks the test skipped and lets it run on.
LookPathGoesOn(t) ==
    /\ ~crashed /\ pc[t] = "idle"
    /\ \E c \in Callbacks, found \in BOOLEAN :
        /\ cb' = [cb EXCEPT ![t] = c]
        /\ pc' = [pc EXCEPT ![t] = "tempdir"]
        /\ outcome' = IF found THEN outcome
                      ELSE [outcome EXCEPT ![t] = "skipped"]
    /\ UNCHANGED <<offset, issued, osVars, crashed, dataDir, configFile,
                   consulConfig, configContent, cmdPid, server, handle, poll,
                   killErr, log, pair>>

\* Test function t calls NewTestServerConfig with callback c, and
\* exec.LookPath("consul"): the test is skipped when the binary is not found.
LookPath(t) ==
    /\ ~crashed /\ pc[t] = "idle"
    /\ \E c \in Callbacks, found \in BOOLEAN :
        /\ cb' = [cb EXCEPT ![t] = c]
        /\ IF found
           THEN /\ pc' = [pc EXCEPT ![t] = "tempdir"]
                /\ outcome' = outcome
           ELSE /\ pc' = [pc EXCEPT ![t] = "done"]
                /\ outcome' = [outcome EXCEPT ![t] = "skipped"]
    /\ UNCHANGED <<offset, issued, osVars, crashed, dataDir, configFile,
                   consulConfig, configContent, cmdPid, server, handle, poll,
                   killErr, log, pair>>

\* dataDir, err := ioutil.TempDir("", "consul")
TempDir(t) ==
    /\ ~crashed /\ pc[t] = "tempdir"
    /\ \E ok \in BOOLEAN :
        IF ok
        THEN /\ dataDir' = [dataDir EXCEPT ![t] = TempDirName(t)]
             /\ dirs' = dirs \cup {TempDirName(t)}
             /\ pc' = [pc EXCEPT ![t] = "tempfile"]
             /\ UNCHANGED <<files, outcome>>
        ELSE /\ Fatalf(t, FALSE)
             /\ UNCHANGED <<dataDir, dirs>>
    /\ UNCHANGED <<offset, issued, alive, crashed, cb, configFile,
                   consulConfig, configContent, cmdPid, server, handle, poll,
                   killErr, log, pair>>

\* configFile, err := ioutil.TempFile("", "consul"), and the defer of
\* os.Remove(configFile.Name())
TempFile(t) ==
    /\ ~crashed /\ pc[t] = "tempfile"
    /\ \E ok \in BOOLEAN :
        IF ok
        THEN /\ configFile' =
                    [configFile EXCEPT ![t] = TempFileName(t)]
             /\ files' = PutFile(files, TempFileName(t), Nil)
             /\ pc' = [pc EXCEPT ![t] = "default"]
             /\ UNCHANGED outcome
        ELSE /\ Fatalf(t, FALSE)
             /\ UNCHANGED configFile
    /\ UNCHANGED <<offset, issued, dirs, alive, crashed, cb,
                   dataDir,
                   consulConfig, configContent, cmdPid, server, handle, poll,
                   killErr, log, pair>>

\* consulConfig := defaultServerConfig(): the atomic increment of offset and
\* the configuration built from the index it returns.
DefaultServerConfig(t) ==
    /\ ~crashed /\ pc[t] = "default"
    /\ LET idx == AddUint64(offset, 1) IN
        /\ offset' = idx
        /\ issued' = Append(issued, idx)
        /\ consulConfig' = [consulConfig EXCEPT ![t] = Ptr(DefaultConfig(idx))]
    /\ log' = [log EXCEPT ![t] = Append(@, "allocate")]
    /\ pc' = [pc EXCEPT ![t] = "setdir"]
    /\ UNCHANGED <<osVars, crashed, cb,
                   dataDir, configFile,
                   configContent, cmdPid, server, handle, outcome, poll,
                   killErr, pair>>

\* consulConfig.DataDir = dataDir
SetDataDir(t) ==
    /\ ~crashed /\ pc[t] = "setdir"
    /\ consulConfig' =
            [consulConfig EXCEPT
                ![t] = Ptr([Deref(@) EXCEPT !.DataDir = dataDir[t]])]
    /\ log' = [log EXCEPT ![t] = Append(@, "defaults")]
    /\ pc' = [pc EXCEPT ![t] = "callback"]
    /\ UNCHANGED <<offset, issued, osVars, crashed, cb,
                   dataDir,
                   configFile, configContent, cmdPid, server, handle, outcome,
                   poll, killErr, pair>>

\* Variant of RunCallback that assigns the default data directory after the
\* callback has run.
RunCallbackThenDataDir(t) ==
    /\ ~crashed /\ pc[t] = "callback"
    /\ consulConfig' =
            [consulConfig EXCEPT
                ![t] = Ptr([ApplyCallback(Deref(@), cb[t])
                                EXCEPT !.DataDir = dataDir[t]])]
    /\ log' = [log EXCEPT ![t] = Append(@, "callback")]
    /\ pc' = [pc EXCEPT ![t] = "marshal"]
    /\ UNCHANGED <<offset, issued, osVars, crashed, cb, dataDir, configFile,
                   configContent, cmdPid, server, handle, outcome, poll,
                   killErr, pair>>

\* if cb != nil { cb(consulConfig) }
RunCallback(t) ==
    /\ ~crashed /\ pc[t] = "callback"
    /\ consulConfig' =
            [consulConfig EXCEPT ![t] = Ptr(ApplyCallback(Deref(@), cb[t]))]
    /\ log' = [log EXCEPT ![t] = Append(@, "callback")]
    /\ pc' = [pc EXCEPT ![t] = "marshal"]
    /\ UNCHANGED <<offset, issued, osVars, crashed, cb,
                   dataDir,
                   configFile, configContent, cmdPid, server, handle, outcome,
                   poll, killErr, pair>>

\* configContent, err := json.Marshal(consulConfig), and the t.Fatalf on its
\* error.  The error is drawn like that of the other calls: the code has the
\* branch, though encoding/json returns no error for a value of this type,
\* so the failing branch adds behaviours and hides none.
MarshalConfig(t) ==
    /\ ~crashed /\ pc[t] = "marshal"
    /\ \E ok \in BOOLEAN :
        IF ok
        THEN /\ configContent' =
                    [configContent EXCEPT
                        ![t] = Ptr(Marshal(Deref(consulConfig[t])))]
             /\ log' = [log EXCEPT ![t] = Append(@, "marshal")]
             /\ pc' = [pc EXCEPT ![t] = "write"]
             /\ UNCHANGED <<files, outcome>>
        ELSE /\ Fatalf(t, TRUE)
             /\ UNCHANGED <<configContent, log>>
    /\ UNCHANGED <<offset, issued, dirs, alive, crashed, cb, dataDir,
                   configFile, consulConfig, cmdPid, server, handle, poll,
                   killErr, pair>>

\* Variant of WriteConfig that goes on to start the agent after a failed
\* write.
WriteConfigGoesOn(t) ==
    /\ ~crashed /\ pc[t] = "write"
    /\ \E ok \in BOOLEAN :
        IF ok
        THEN /\ files' = PutFile(files, configFile[t], configContent[t])
             /\ log' = [log EXCEPT ![t] = Append(@, "write")]
        ELSE UNCHANGED <<files, log>>
    /\ pc' = [pc EXCEPT ![t] = "spawn"]
    /\ UNCHANGED <<offset, issued, dirs, alive, crashed, localVars, handle,
                   outcome, poll, killErr, pair>>

\* configFile.Write(configContent) and configFile.Close()
WriteConfig(t) ==
    /\ ~crashed /\ pc[t] = "write"
    /\ \E ok \in BOOLEAN :
        IF ok
        THEN /\ files' = PutFile(files, configFile[t], configContent[t])
             /\ log' = [log EXCEPT ![t] = Append(@, "write")]
             /\ pc' = [pc EXCEPT ![t] = "spawn"]
             /\ UNCHANGED outcome
        ELSE /\ Fatalf(t, TRUE)
             /\ UNCHANGED log
    /\ UNCHANGED <<offset, issued, dirs, alive, crashed, localVars,
                   handle, poll, killErr, pair>>

\* cmd := exec.Command("consul", "agent", "-config-file", ...); cmd.Start()
StartAgent(t) ==
    /\ ~crashed /\ pc[t] = "spawn"
    /\ \E ok \in BOOLEAN :
        IF ok
        THEN /\ cmdPid' = [cmdPid EXCEPT ![t] = FreshPid(t)]
             /\ alive' = alive \cup {FreshPid(t)}
             /\ log' = [log EXCEPT ![t] = Append(@, "spawn")]
             /\ pc' = [pc EXCEPT ![t] = "wait"]
             /\ UNCHANGED <<files, outcome>>
        ELSE /\ Fatalf(t, TRUE)
             /\ UNCHANGED <<cmdPid, alive, log>>
    /\ UNCHANGED <<offset, issued, dirs, crashed, cb,
                   dataDir,
                   configFile, consulConfig, configContent, server, handle,
                   poll, killErr, pair>>

\* server := &TestServer{...} and the entry of server.waitForLeader(): the
\* call of WaitForResult.
WaitForLeader(t) ==
    /\ ~crashed /\ pc[t] = "wait"
    /\ server' = [server EXCEPT ![t] =
            Ptr([config |-> Deref(consulConfig[t]), pid |-> cmdPid[t],
                 dataDir |-> dataDir[t]])]
    /\ \E k \in 0..(MaxAttempts + 1) : poll' = [poll EXCEPT ![t] = NewPoll(k)]
    /\ log' = [log EXCEPT ![t] = Append(@, "poll")]
    /\ pc' = [pc EXCEPT ![t] = "poll"]
    /\ UNCHANGED <<offset, issued, osVars, crashed, cb,
                   dataDir,
                   configFile, consulConfig, configContent, cmdPid, handle,
                   outcome, killErr, pair>>

\* One turn of WaitForResult's loop inside waitForLeader: the check (http.Get
\* and the two header tests) is called once; then WaitForResult returns,
\* retries, or calls the give-up handler, whose panic unwinds
\* NewTestServerConfig (the deferred os.Remove runs) and ends the test binary.
PollAttempt(t) ==
    /\ ~crashed /\ pc[t] = "poll"
    /\ \E resp \in Responses :
        LET r == ReadinessCheck(resp)
            n == poll[t].calls + 1
            step == WaitForResult(n, r.ok)
        IN  /\ r.ok = (poll[t].calls >= poll[t].readyAfter)
            /\ poll' = [poll EXCEPT ![t] =
                    [@ EXCEPT !.calls = n, !.lastResp = Ptr(resp),
                              !.lastOk = r.ok, !.lastErr = r.err,
                              !.giveUps = IF step = "giveup" THEN @ + 1 ELSE @,
                              !.handlerErr =
                                    IF step = "giveup" THEN r.err ELSE @]]
            /\ IF step = "giveup" /\ OnGiveUp(r.err) = "panic"
               THEN /\ files' = RemoveFile(files, configFile[t])
                    /\ crashed' = TRUE
                    /\ outcome' = [outcome EXCEPT ![t] = "panicked"]
                    /\ pc' = [pc EXCEPT ![t] = "done"]
               ELSE /\ pc' = [pc EXCEPT ![t] =
                            IF step = "retry" THEN "poll" ELSE "return"]
                    /\ UNCHANGED <<files, crashed, outcome>>
    /\ UNCHANGED <<offset, issued, dirs, alive, localVars, handle,
                   killErr, log, pair>>

\* waitForLeader returned nil: return server, and the deferred
\* os.Remove(configFile.Name()) runs.
ReturnServer(t) ==
    /\ ~crashed /\ pc[t] = "return"
    /\ handle' = [handle EXCEPT ![t] = server[t]]
    /\ files' = RemoveFile(files, configFile[t])
    /\ outcome' = [outcome EXCEPT ![t] = "returned"]
    /\ pc' = [pc EXCEPT ![t] = "running"]
    /\ poll' = [poll EXCEPT ![t] = NewPoll(0)]
    /\ UNCHANGED <<offset, issued, dirs, alive, crashed, localVars,
                   killErr, log, pair>>

\* ---------------------------------------------------------- TestServer.Stop

\* Variant of StopKill that removes the data directory before the kill.
StopKillRemovesFirst(t) ==
    /\ ~crashed /\ pc[t] \in {"running", "stopped"}
    /\ dirs' = dirs \ {Deref(handle[t]).dataDir}
    /\ \E res \in {"killed", "gone", "undelivered"} :
        /\ Deref(handle[t]).pid \notin alive => res = "gone"
        /\ alive' = IF res = "undelivered" THEN alive
                     ELSE alive \ {Deref(handle[t]).pid}
        /\ killErr' = [killErr EXCEPT ![t] = res # "killed"]
    /\ pc' = [pc EXCEPT ![t] = "stopdefer"]
    /\ UNCHANGED <<offset, issued, files, crashed, localVars,
                   handle, outcome, poll, log, pair>>

\* Stop, up to the end of cmd.Run() of kill -9 <pid>.  The kill ends the
\* process ("killed"), or fails: the process has exited before ("gone"), or
\* the signal is not delivered ("undelivered").  A process that is no longer
\* running can only be found gone.
StopKill(t) ==
    /\ ~crashed /\ pc[t] \in {"running", "stopped"}
    /\ \E res \in {"killed", "gone", "undelivered"} :
        /\ Deref(handle[t]).pid \notin alive => res = "gone"
        /\ alive' = IF res = "undelivered" THEN alive
                     ELSE alive \ {Deref(handle[t]).pid}
        /\ killErr' = [killErr EXCEPT ![t] = res # "killed"]
    /\ pc' = [pc EXCEPT ![t] = "stopdefer"]
    /\ UNCHANGED <<offset, issued, dirs, files, crashed, localVars,
                   handle, outcome, poll, log, pair>>

\* Variant of StopDeferred that drops the error of the kill.
StopDeferredSwallows(t) ==
    /\ ~crashed /\ pc[t] = "stopdefer"
    /\ dirs' = dirs \ {Deref(handle[t]).dataDir}
    /\ pc' = [pc EXCEPT ![t] = "stopped"]
    /\ UNCHANGED <<offset, issued, files, alive, crashed, localVars, handle,
                   outcome, poll, killErr, log, pair>>

\* Variant of StopDeferred that removes the directory after the kill without
\* defer, so that the panic skips the removal.
StopDeferredNoDefer(t) ==
    /\ ~crashed /\ pc[t] = "stopdefer"
    /\ IF killErr[t]
       THEN /\ crashed' = TRUE
            /\ outcome' = [outcome EXCEPT ![t] = "panicked"]
            /\ pc' = [pc EXCEPT ![t] = "done"]
            /\ dirs' = dirs
       ELSE /\ pc' = [pc EXCEPT ![t] = "stopped"]
            /\ dirs' = dirs \ {Deref(handle[t]).dataDir}
            /\ UNCHANGED <<crashed, outcome>>
    /\ UNCHANGED <<offset, issued, files, alive, localVars, handle,
                   poll, killErr, log, pair>>

\* The rest of Stop: panic(err) when the kill failed; the deferred
\* os.RemoveAll(s.dataDir) runs on both ways out.
StopDeferred(t) ==
    /\ ~crashed /\ pc[t] = "stopdefer"
    /\ dirs' = dirs \ {Deref(handle[t]).dataDir}
    /\ IF killErr[t]
       THEN /\ crashed' = TRUE
            /\ outcome' = [outcome EXCEPT ![t] = "panicked"]
            /\ pc' = [pc EXCEPT ![t] = "done"]
       ELSE /\ pc' = [pc EXCEPT ![t] = "stopped"]
            /\ UNCHANGED <<crashed, outcome>>
    /\ UNCHANGED <<offset, issued, files, alive, localVars, handle,
                   poll, killErr, log, pair>>

Next ==
    \E t \in Tests :
        \/ LookPath(t)
        \/ TempDir(t)
        \/ TempFile(t)
        \/ DefaultServerConfig(t)
        \/ SetDataDir(t)
        \/ RunCallback(t)
        \/ MarshalConfig(t)
        \/ WriteConfig(t)
        \/ StartAgent(t)
        \/ WaitForLeader(t)
        \/ PollAttempt(t)
        \/ ReturnServer(t)
        \/ StopKill(t)
        \/ StopDeferred(t)

Spec == Init /\ [][Next]_vars

\* WaitForResult's loop runs on while the test binary lives: a goroutine that
\* can take its next turn of the loop takes it.
LiveSpec == Spec /\ \A t \in Tests : WF_vars(PollAttempt(t))

\* ------------------------------------------- the port computation on its own

\* Two indices the counter can hand out in one process.
PortInit ==
    /\ ProcessStart
    /\ pair \in {[NoPair EXCEPT !.i = i, !.j = j] : i, j \in 1..MaxIndex}

\* defaultServerConfig's ports for the first index.
ComputeI ==
    /\ pair.portsI = Nil
    /\ pair' = [pair EXCEPT !.portsI = DefaultConfig(pair.i).Ports]
    /\ UNCHANGED <<offset, issued, osVars, crashed, pc, localVars,
                   handle, outcome, poll, killErr, log>>

\* defaultServerConfig's ports for the second index.
ComputeJ ==
    /\ pair.portsJ = Nil
    /\ pair' = [pair EXCEPT !.portsJ = DefaultConfig(pair.j).Ports]
    /\ UNCHANGED <<offset, issued, osVars, crashed, pc, localVars,
                   handle, outcome, poll, killErr, log>>

PortNext == ComputeI \/ ComputeJ

PortSpec == PortInit /\ [][PortNext]_vars

\* ------------------------------------------------------------------ claims

Abs(x) == IF x < 0 THEN -x ELSE x

\* The launches that hold a configuration, i.e. have been handed an index.
Allocated == {t \in Tests : consulConfig[t] # Nil}

\* The index a launch was handed: the callbacks leave the server port alone.
IndexOf(t) == Deref(Deref(consulConfig[t]).Ports).Server - ServerBase

\* C1: index allocation is linearizable.  The first index handed out is 1,
\* no increment is lost (the counter equals the number of indices handed
\* out), every index is strictly greater than every index handed out before
\* it, so no two launches hold the same index, each launch holds an index
\* that was handed out, and the counter never decreases.
C1_Indices ==
    /\ offset = Len(issued)
    /\ Len(issued) > 0 => issued[1] = 1
    /\ \A m, n \in 1..Len(issued) : m < n => issued[m] < issued[n]
    /\ \A t \in Allocated : \E n \in 1..Len(issued) : IndexOf(t) = issued[n]
    /\ \A t, u \in Allocated : t # u => IndexOf(t) # IndexOf(u)

C1_IndexAllocation == []C1_Indices /\ [][offset' >= offset]_vars

\* Two launches run at the same time and both hold an index.
C1_Witness ==
    /\ Allocated = Tests
    /\ \A t \in Tests : pc[t] \in {"setdir", "callback", "marshal", "write"}

\* The role bases of defaultServerConfig and the distances between them.
Bases == {DNSBase, HTTPBase, RPCBase, SerfLanBase, SerfWanBase, ServerBase}
BaseDistances == {Abs(a - b) : a, b \in Bases} \ {0}
MinBaseSeparation ==
    CHOOSE d \in BaseDistances : \A e \in BaseDistances : d <= e

BothComputed == pair.portsI # Nil /\ pair.portsJ # Nil
Disjoint(p, q) == PortSet(Deref(p)) \cap PortSet(Deref(q)) = {}

\* C2: the smallest distance between two role bases is 200; two different
\* indices less than that apart get six ports each with no port in common,
\* and the six ports of one instance are pairwise different.
C2_DisjointWithinSeparation ==
    /\ MinBaseSeparation = 200
    /\ pair.portsI # Nil => Cardinality(PortSet(Deref(pair.portsI))) = 6
    /\ (BothComputed /\ pair.i # pair.j
            /\ Abs(pair.i - pair.j) < MinBaseSeparation)
        => Disjoint(pair.portsI, pair.portsJ)

\* Two indices as far apart as the claim allows, both computed.
C2_Witness ==
    BothComputed /\ Abs(pair.i - pair.j) = MinBaseSeparation - 1

\* C3 as stated: two different indices, however far apart, never share a
\* port.
C3_NeverCollide ==
    (BothComputed /\ pair.i # pair.j) => Disjoint(pair.portsI, pair.portsJ)

\* C3 amended: two different indices never share a port of the same role,
\* and share no port at all unless their distance is the distance between
\* two role bases.
C3_CollideOnlyAtBaseDistance ==
    (BothComputed /\ pair.i # pair.j)
        => /\ \A r \in PortRoles :
                Deref(pair.portsI)[r] # Deref(pair.portsJ)[r]
           /\ Abs(pair.i - pair.j) \notin BaseDistances
                => Disjoint(pair.portsI, pair.portsJ)

\* Two indices further apart than the smallest separation, but not at the
\* distance of two bases.
C3_Witness ==
    /\ BothComputed
    /\ Abs(pair.i - pair.j) > MinBaseSeparation
    /\ Disjoint(pair.portsI, pair.portsJ)

\* C4: the default ports are the role bases plus the index; index 1 gets
\* http 18801, rpc 18601, dns 19001, serf_lan 18201, serf_wan 18401 and
\* server 18001.
C4_PortsOfIndex ==
    pair.portsI # Nil
        => /\ Deref(pair.portsI) =
                [DNS |-> 19000 + pair.i, HTTP |-> 18800 + pair.i,
                 RPC |-> 18600 + pair.i, SerfLan |-> 18200 + pair.i,
                 SerfWan |-> 18400 + pair.i, Server |-> 18000 + pair.i]
           /\ pair.i = 1
                => Deref(pair.portsI) =
                    [HTTP |-> 18801, RPC |-> 18601, DNS |-> 19001,
                     SerfLan |-> 18201, SerfWan |-> 18401, Server |-> 18001]

\* The ports of index 1 have been computed.
C4_Witness == pair.i = 1 /\ pair.portsI # Nil

\* The run of WaitForResult of launch t is over: it returned, or its give-up
\* handler was called.
PollReturned(t) == pc[t] = "return"
PollGaveUp(t) == poll[t].giveUps > 0

C6_GiveUpOnce ==
    \A t \in Tests :
        /\ poll[t].calls <= MaxAttempts
        /\ poll[t].giveUps <= 1
        /\ PollGaveUp(t)
            => /\ poll[t].calls = MaxAttempts
               /\ ~poll[t].lastOk
               /\ poll[t].handlerErr = poll[t].lastErr
               /\ poll[t].handlerErr = ReadinessCheck(Deref(poll[t].lastResp)).err
               /\ poll[t].handlerErr # "nil"
        /\ (poll[t].readyAfter >= MaxAttempts /\ poll[t].calls = MaxAttempts)
            => PollGaveUp(t)

\* C6: readiness polling with a check that always fails terminates: a bounded
\* number of calls, then the give-up handler exactly once with the last
\* error, and neither the check nor the handler again afterwards.
C6_AlwaysFailingTerminates ==
    /\ []C6_GiveUpOnce
    /\ [][\A t \in Tests : PollGaveUp(t) => poll'[t] = poll[t]]_vars
    /\ \A t \in Tests :
        (pc[t] = "poll" /\ poll[t].readyAfter >= MaxAttempts)
            ~> (PollGaveUp(t) \/ crashed)

\* The handler has been called after MaxAttempts failing calls.
C6_Witness ==
    \E t \in Tests :
        /\ PollGaveUp(t)
        /\ poll[t].readyAfter > MaxAttempts
        /\ poll[t].calls = MaxAttempts

\* C7 as stated: the check reports success only for a response that came
\* without transport error, whose leader header is present and "true" and
\* whose index header is present and not zero; for every other response it
\* reports not-ready with an error.
C7_ReadyNeedsLeaderAndIndex ==
    \A t \in Tests :
        poll[t].lastResp # Nil
            => LET resp == Deref(poll[t].lastResp) IN
               /\ poll[t].lastOk
                    <=> /\ ~resp.transportErr
                        /\ resp.leader = Ptr("true")
                        /\ resp.index # Nil
                        /\ resp.index # Ptr("0")
               /\ ~poll[t].lastOk => poll[t].lastErr # "nil"

\* C8: a handle reaches the caller only from a launch whose readiness poll
\* succeeded; a launch whose poller gave up has panicked: the test binary is
\* dead and the caller holds no handle.
C8_HandleOnlyWhenReady ==
    /\ [](\A t \in Tests :
            /\ handle[t] # Nil
                => outcome[t] \in {"returned", "panicked"} /\ poll[t].giveUps = 0
            /\ PollGaveUp(t)
                => /\ handle[t] = Nil
                   /\ outcome[t] = "panicked"
                   /\ pc[t] = "done"
                   /\ crashed)
    /\ [][\A t \in Tests :
            (handle[t] = Nil /\ handle'[t] # Nil)
                => /\ PollReturned(t)
                   /\ poll[t].lastOk
                   /\ poll[t].giveUps = 0
                   /\ handle'[t] = server[t]]_vars

\* One launch has returned its handle and another one's poller has given up.
C8_Witness ==
    \E t, u \in Tests :
        /\ handle[t] # Nil /\ outcome[t] = "returned"
        /\ PollGaveUp(u) /\ handle[u] = Nil

\* The steps of one launch, in the order NewTestServerConfig takes them.
LaunchOrder ==
    <<"allocate", "defaults", "callback", "marshal", "write", "spawn", "poll">>

IsPrefix(s, q) == Len(s) <= Len(q) /\ \A n \in 1..Len(s) : s[n] = q[n]

Logged(t, step) == \E n \in 1..Len(log[t]) : log[t][n] = step

\* C9 as stated: every field the callback sets appears with exactly the
\* callback's value in the serialized configuration.
C9_CallbackValuesAppear ==
    \A t \in Tests :
        configContent[t] # Nil
            => LET doc == Deref(configContent[t]) IN
               /\ cb[t] = "DataDirCustom"
                    => "data_dir" \in DOMAIN doc /\ doc["data_dir"] = "/custom"
               /\ cb[t] = "DataDirEmpty"
                    => "data_dir" \in DOMAIN doc /\ doc["data_dir"] = ""
               /\ cb[t] = "HTTPZero"
                    => /\ "http" \in DOMAIN doc["ports"]
                       /\ doc["ports"]["http"] = 0

\* C9 amended: the callback runs after all defaults and before the
\* serialization, and no default is assigned after it.  A field the callback
\* sets to a non-empty value appears with exactly that value in the
\* serialized configuration, which is the content of the file the agent is
\* started with; a field the callback sets to its empty value ("" or 0) is
\* left out of the serialized configuration, the default is not put back;
\* without a callback the default data directory appears.
C9_CallbackOverridesDefaults ==
    \A t \in Tests :
        /\ Logged(t, "callback")
            => IsPrefix(<<"allocate", "defaults", "callback">>, log[t])
        /\ Logged(t, "marshal")
            => IsPrefix(<<"allocate", "defaults", "callback", "marshal">>, log[t])
        /\ configContent[t] # Nil
            => LET doc == Deref(configContent[t]) IN
               /\ Logged(t, "callback")
               /\ cb[t] = "DataDirCustom"
                    => "data_dir" \in DOMAIN doc /\ doc["data_dir"] = "/custom"
               /\ cb[t] = "DataDirEmpty" => "data_dir" \notin DOMAIN doc
               /\ cb[t] = "HTTPZero" => "http" \notin DOMAIN doc["ports"]
               /\ cb[t] \in {"nil", "HTTPZero"}
                    => "data_dir" \in DOMAIN doc /\ doc["data_dir"] = dataDir[t]
               /\ cb[t] # "HTTPZero"
                    => /\ "http" \in DOMAIN doc["ports"]
                       /\ doc["ports"]["http"] = HTTPBase + IndexOf(t)
        /\ pc[t] \in {"wait", "poll", "return"}
            => /\ configFile[t] \in DOMAIN files
               /\ files[configFile[t]] = configContent[t]

\* An agent has been started with a configuration whose data directory the
\* callback set.
C9_Witness ==
    \E t \in Tests :
        /\ pc[t] = "poll"
        /\ cb[t] = "DataDirCustom"
        /\ Deref(files[configFile[t]])["data_dir"] = "/custom"

\* C10: within one launch the steps happen in the order allocate index and
\* derive ports, write the configuration, spawn the process, poll; none
\* happens twice; the process is spawned only once the file holds the
\* complete configuration, and the check is called only after the spawn.
C10_LaunchOrder ==
    \A t \in Tests :
        /\ IsPrefix(log[t], LaunchOrder)
        /\ Logged(t, "allocate") <=> consulConfig[t] # Nil
        /\ Logged(t, "marshal") <=> configContent[t] # Nil
        /\ Logged(t, "spawn") <=> cmdPid[t] # 0
        /\ Logged(t, "poll") <=> server[t] # Nil
        /\ poll[t].calls > 0 => Logged(t, "poll")
        /\ pc[t] = "wait"
            => /\ configFile[t] \in DOMAIN files
               /\ files[configFile[t]] = configContent[t]
               /\ configContent[t] = Ptr(Marshal(Deref(consulConfig[t])))

\* A launch has gone through all its steps and is polling.
C10_Witness ==
    \E t \in Tests : log[t] = LaunchOrder /\ poll[t].calls > 0

\* What launch t has changed outside itself is nothing: no index, no
\* directory, no file, no process.
NoTraceOf(t) ==
    /\ t \notin Allocated
    /\ offset = Cardinality(Allocated)
    /\ TempDirName(t) \notin dirs
    /\ TempFileName(t) \notin DOMAIN files
    /\ FreshPid(t) \notin alive

\* C11: when the agent binary is not found the launch ends with the test
\* skipped, not failed, and no later step runs: no index is consumed, no
\* data directory and no config file is created, no process is spawned and
\* no handle is returned; a skipped launch never moves again.
C11_SkipDoesNothing ==
    /\ [](\A t \in Tests :
            outcome[t] = "skipped"
                => /\ pc[t] = "done"
                   /\ NoTraceOf(t)
                   /\ log[t] = <<>>
                   /\ dataDir[t] = "" /\ configFile[t] = ""
                   /\ configContent[t] = Nil /\ cmdPid[t] = 0
                   /\ server[t] = Nil /\ handle[t] = Nil
                   /\ poll[t].calls = 0)
    /\ [][\A t \in Tests :
            /\ (pc[t] = "idle" /\ pc'[t] = "done")
                => outcome'[t] = "skipped" /\ ~crashed'
            /\ outcome[t] = "skipped"
                => outcome'[t] = "skipped" /\ pc'[t] = "done"]_vars

\* One launch was skipped while the other one went on and was handed the
\* first index.
C11_Witness ==
    \E t, u \in Tests :
        /\ outcome[t] = "skipped"
        /\ u \in Allocated /\ offset = 1

\* The variables of launch t that its own steps assign.
LaunchState(t) ==
    <<pc[t], outcome[t], dataDir[t], configFile[t], consulConfig[t],
      configContent[t], cmdPid[t], server[t], handle[t], poll[t], log[t]>>

\* The steps of NewTestServerConfig that end in t.Fatalf.
FatalSteps == {"tempdir", "tempfile", "marshal", "write", "spawn"}

\* C12: a setup failure (data-directory creation, config-file creation,
\* serialization, config-file write, spawn) is fatal at once: the launch
\* ends at the failing step, the step is not retried, no later step runs
\* (nothing is spawned after a failed write, nothing is polled after a
\* failed spawn) and no handle is returned.
C12_SetupFailureIsFatal ==
    /\ [](\A t \in Tests :
            outcome[t] = "fatal"
                => /\ pc[t] = "done"
                   /\ handle[t] = Nil /\ server[t] = Nil
                   /\ cmdPid[t] = 0 /\ FreshPid(t) \notin alive
                   /\ poll[t].calls = 0 /\ poll[t].giveUps = 0
                   /\ ~Logged(t, "spawn") /\ ~Logged(t, "poll")
                   /\ dataDir[t] = ""
                        => configFile[t] = "" /\ TempDirName(t) \notin dirs
                   /\ configFile[t] = ""
                        => consulConfig[t] = Nil /\ log[t] = <<>>
                   /\ configContent[t] = Nil => ~Logged(t, "write"))
    /\ [][\A t \in Tests :
            /\ (outcome[t] # "fatal" /\ outcome'[t] = "fatal")
                => /\ pc[t] \in FatalSteps /\ pc'[t] = "done"
                   /\ log'[t] = log[t] /\ alive' = alive /\ dirs' = dirs
                   /\ handle'[t] = Nil /\ ~crashed'
            /\ outcome[t] = "fatal"
                => LaunchState(t)' = LaunchState(t)]_vars

\* A launch whose spawn failed: the configuration was written, no process
\* was started, and the launch is over.
C12_Witness ==
    \E t \in Tests :
        /\ outcome[t] = "fatal" /\ pc[t] = "done"
        /\ Logged(t, "write") /\ cmdPid[t] = 0

\* The launches that returned a handle.
Handed == {t \in Tests : handle[t] # Nil}

\* Stop of handle t has attempted its kill and has not yet run its deferred
\* removal.
KillAttempted(t) == pc[t] = "stopdefer"

\* C13: Stop first forcibly terminates the process by the stored pid and
\* only afterwards removes the handle's data directory: the step that
\* attempts the kill leaves every directory in place, and the directory of
\* a handle goes away only in a step taken after that handle's kill was
\* attempted.
C13_KillBeforeRemove ==
    [][\A t \in Handed :
        /\ (pc[t] \in {"running", "stopped"} /\ pc'[t] = "stopdefer")
            => dirs' = dirs
        /\ (Deref(handle[t]).dataDir \in dirs
                /\ Deref(handle[t]).dataDir \notin dirs')
            => /\ KillAttempted(t)
               /\ Deref(handle[t]).pid \in alive => killErr[t]]_vars

\* Half-way through Stop: the process has been killed and the data
\* directory is still there.
C13_Witness ==
    \E t \in Handed :
        /\ KillAttempted(t) /\ ~killErr[t]
        /\ Deref(handle[t]).pid \notin alive
        /\ Deref(handle[t]).dataDir \in dirs

\* C14: a failure to terminate the process in Stop is never swallowed:
\* whenever the kill failed (the process was already gone, as on a second
\* Stop of the same handle, or the signal was not delivered), Stop panics
\* and does not return normally.
C14_KillFailurePanics ==
    /\ [](\A t \in Handed : pc[t] = "stopped" => ~killErr[t])
    /\ [][\A t \in Handed :
            /\ (KillAttempted(t) /\ killErr[t] /\ pc'[t] # pc[t])
                => /\ pc'[t] = "done" /\ outcome'[t] = "panicked"
                   /\ crashed'
            /\ (pc[t] = "stopped" /\ pc'[t] = "stopdefer"
                    /\ Deref(handle[t]).pid \notin alive)
                => killErr'[t]]_vars

\* A Stop whose kill found the process gone has panicked.
C14_Witness ==
    \E t \in Handed :
        /\ pc[t] = "done" /\ outcome[t] = "panicked" /\ crashed
        /\ killErr[t] /\ Deref(handle[t]).pid \notin alive

\* Launch t has ended without handing out a handle.
EndedWithoutHandle(t) == pc[t] = "done" /\ handle[t] = Nil

\* C15: no spawned process is left running without a handle: whenever a
\* launch has spawned the agent and ended without returning a handle (the
\* poll gave up), the spawned process is no longer running.
C15_NoOrphanProcess ==
    \A t \in Tests :
        (EndedWithoutHandle(t) /\ cmdPid[t] # 0) => cmdPid[t] \notin alive

\* The data directory the agent of handle t was started with: the data_dir
\* of the configuration that was serialized for it.
ConfiguredDataDir(t) == Deref(handle[t]).config.DataDir

\* C16: for every returned handle, the data directory recorded in the
\* handle (the one Stop removes) is the data directory of the configuration
\* the process was started with, also when the callback overrode it.
C16_HandleDirIsConfiguredDir ==
    \A t \in Handed : Deref(handle[t]).dataDir = ConfiguredDataDir(t)

\* NewTestServerConfig of launch t is over: it returned, or its goroutine
\* ended in t.SkipNow, t.Fatalf or a panic.
LaunchEnded(t) == pc[t] \in {"done", "running", "stopdefer", "stopped"}

\* C17: once the temporary config file has been created it is removed on
\* every way out of NewTestServerConfig (normal return, fatal abort at
\* serialization, write or spawn, panic of the give-up handler), and it is
\* removed by the step that ends the launch, not before.
C17_ConfigFileRemoved ==
    /\ [](\A t \in Tests :
            (LaunchEnded(t) /\ configFile[t] # "")
                => configFile[t] \notin DOMAIN files)
    /\ [][\A t \in Tests :
            (configFile[t] \in DOMAIN files
                    /\ configFile[t] \notin DOMAIN files')
                => ~LaunchEnded(t) /\ LaunchEnded(t)']_vars

\* A launch that ended in the panic of the give-up handler, its config
\* file removed, while the other launch returned with its file removed.
C17_Witness ==
    \E t, u \in Tests :
        /\ pc[t] = "done" /\ outcome[t] = "panicked" /\ PollGaveUp(t)
        /\ configFile[t] # "" /\ configFile[t] \notin DOMAIN files
        /\ outcome[u] = "returned"
        /\ configFile[u] # "" /\ configFile[u] \notin DOMAIN files

\* Launch t was aborted after its data directory had been created.
AbortedAfterTempDir(t) ==
    /\ pc[t] = "done" /\ handle[t] = Nil
    /\ outcome[t] \in {"fatal", "panicked"}
    /\ dataDir[t] # ""

\* Stop of handle t is over: it returned or panicked.
StopEnded(t) ==
    \/ pc[t] = "stopped"
    \/ pc[t] = "done" /\ outcome[t] = "panicked"

\* C18: Stop removes the data directory recorded in the handle on every
\* path, the one where the kill fails and Stop panics included; and the
\* data directory a launch created is not removed on any launch path that
\* aborts after creating it (config-file, serialization, write, spawn or
\* readiness failure): only Stop removes a directory.
C18_OnlyStopRemovesDataDir ==
    /\ [](\A t \in Handed :
            StopEnded(t) => Deref(handle[t]).dataDir \notin dirs)
    /\ [](\A t \in Tests : AbortedAfterTempDir(t) => dataDir[t] \in dirs)
    /\ [][\A d \in dirs \ dirs' :
            \E t \in Handed :
                /\ d = Deref(handle[t]).dataDir
                /\ KillAttempted(t) /\ StopEnded(t)']_vars

\* A Stop whose kill failed has panicked with the handle's directory
\* removed, while the directory of a launch aborted by fatal is still there.
C18_Witness ==
    \E t \in Handed, u \in Tests :
        /\ StopEnded(t) /\ killErr[t] /\ outcome[t] = "panicked"
        /\ Deref(handle[t]).dataDir \notin dirs
        /\ AbortedAfterTempDir(u) /\ outcome[u] = "fatal"
        /\ dataDir[u] \in dirs

====
